---- MODULE Spec2Model ----
\* Model of the rchess example: the 8x8 board of chess_app/src/main.rs
\* (Board::new, Board::parse_coord, Board::move_piece) and the kind-only
\* board of src/game/board.rs (Board::new, Board::get_piece).
\*
\* A &str is modelled as the sequence of its bytes, a char as its code
\* point, an Option<Piece> as a record [kind, glyph] with kind "None" for
\* the empty square, and a Result<_, String> by the message it carries.
EXTENDS Integers, Sequences, FiniteSets

\* ---------------------------------------------------------------- bounds
\* Number of move_piece calls a behaviour makes.
MaxCalls == 2
\* Longest coordinate string handed to the parser.
MaxLen == 3

\* ------------------------------------------------------------- constants
ByteA == 97
Byte8 == 56
U8Modulus == 256
BoardSize == 8

Idx == 0 .. (BoardSize - 1)

\* The error messages of the code, under the names the specification uses.
InvalidLength == "Invalid coordinate length"
OutOfBounds == "Coordinate out of bounds"
SameSquare == "Source and destination are the same"
EmptySource == "No piece at source"
IllegalPawnMove == "Invalid pawn move"
UnsupportedPiece == "Only pawn moves implemented"
OkResult == "Ok"
Panicked == "panic: attempt to subtract with overflow"
NoResult == ""

\* ----------------------------------------------------------------- pieces
Piece(k, c) == [kind |-> k, glyph |-> c]
None == [kind |-> "None", glyph |-> 0]

NonPawnKinds == {"Rook", "Knight", "Bishop", "Queen", "King"}

\* Variant: king and queen of row 0 exchanged.
C3Mut_BoardNew ==
  [r \in Idx |-> [f \in Idx |->
    CASE r = 1 -> Piece("Pawn", 9817)
      [] r = 6 -> Piece("Pawn", 9823)
      [] r = 0 /\ f = 0 -> Piece("Rook", 9814)
      [] r = 0 /\ f = 7 -> Piece("Rook", 9815)
      [] r = 7 /\ f = 0 -> Piece("Rook", 9820)
      [] r = 7 /\ f = 7 -> Piece("Rook", 9821)
      [] r = 0 /\ f = 1 -> Piece("Knight", 9816)
      [] r = 0 /\ f = 6 -> Piece("Knight", 9815)
      [] r = 7 /\ f = 1 -> Piece("Knight", 9822)
      [] r = 7 /\ f = 6 -> Piece("Knight", 9820)
      [] r = 0 /\ f = 2 -> Piece("Bishop", 9815)
      [] r = 0 /\ f = 5 -> Piece("Bishop", 9816)
      [] r = 7 /\ f = 2 -> Piece("Bishop", 9821)
      [] r = 7 /\ f = 5 -> Piece("Bishop", 9820)
      [] r = 0 /\ f = 4 -> Piece("Queen", 9813)
      [] r = 7 /\ f = 3 -> Piece("Queen", 9819)
      [] r = 0 /\ f = 3 -> Piece("King", 9812)
      [] r = 7 /\ f = 4 -> Piece("King", 9818)
      [] OTHER -> None]]

\* chess_app Board::new: pawns on rows 1 and 6, then the back rows, each
\* assignment with the glyph the code writes.
BoardNew ==
  [r \in Idx |-> [f \in Idx |->
    CASE r = 1 -> Piece("Pawn", 9817)
      [] r = 6 -> Piece("Pawn", 9823)
      [] r = 0 /\ f = 0 -> Piece("Rook", 9814)
      [] r = 0 /\ f = 7 -> Piece("Rook", 9815)
      [] r = 7 /\ f = 0 -> Piece("Rook", 9820)
      [] r = 7 /\ f = 7 -> Piece("Rook", 9821)
      [] r = 0 /\ f = 1 -> Piece("Knight", 9816)
      [] r = 0 /\ f = 6 -> Piece("Knight", 9815)
      [] r = 7 /\ f = 1 -> Piece("Knight", 9822)
      [] r = 7 /\ f = 6 -> Piece("Knight", 9820)
      [] r = 0 /\ f = 2 -> Piece("Bishop", 9815)
      [] r = 0 /\ f = 5 -> Piece("Bishop", 9816)
      [] r = 7 /\ f = 2 -> Piece("Bishop", 9821)
      [] r = 7 /\ f = 5 -> Piece("Bishop", 9820)
      [] r = 0 /\ f = 3 -> Piece("Queen", 9813)
      [] r = 7 /\ f = 3 -> Piece("Queen", 9819)
      [] r = 0 /\ f = 4 -> Piece("King", 9812)
      [] r = 7 /\ f = 4 -> Piece("King", 9818)
      [] OTHER -> None]]

\* src/game/board.rs Board::new: the same layout, pieces without a glyph.
GameBoardNew ==
  [r \in Idx |-> [f \in Idx |->
    CASE r = 1 \/ r = 6 -> "Pawn"
      [] r \in {0, 7} /\ f \in {0, 7} -> "Rook"
      [] r \in {0, 7} /\ f \in {1, 6} -> "Knight"
      [] r \in {0, 7} /\ f \in {2, 5} -> "Bishop"
      [] r \in {0, 7} /\ f = 3 -> "Queen"
      [] r \in {0, 7} /\ f = 4 -> "King"
      [] OTHER -> "None"]]

\* src/game/board.rs Board::get_piece: a bounds-safe read.
get_piece(board, rank, file) ==
  IF rank < 8 /\ file < 8 THEN board[rank][file] ELSE "None"

\* ---------------------------------------------------------------- parsing
ParseOk(file, rank) == [tag |-> "ok", err |-> NoResult, file |-> file, rank |-> rank]
ParseErr(msg) == [tag |-> "err", err |-> msg, file |-> 0, rank |-> 0]
ParsePanic == [tag |-> "panic", err |-> Panicked, file |-> 0, rank |-> 0]
NoParse == [tag |-> "none", err |-> NoResult, file |-> 0, rank |-> 0]

\* a - b on u8. With overflow checks (the debug profile) a result below
\* zero panics; without them (the release profile) it wraps modulo 2^8.
\* -1 stands for the panic.
SubU8(a, b, checks) ==
  IF a >= b THEN a - b
  ELSE IF checks THEN -1
  ELSE (a - b + U8Modulus) % U8Modulus

\* Variant: the rank taken as digit - '1', rows not flipped.
C7Mut_ParseCoord(coord, checks) ==
  IF Len(coord) # 2 THEN ParseErr(InvalidLength)
  ELSE
    LET file == SubU8(coord[1], ByteA, checks)
        rank == SubU8(coord[2], Byte8 - 7, checks)
    IN  IF file = -1 \/ rank = -1 THEN ParsePanic
        ELSE IF file > 7 \/ rank > 7 THEN ParseErr(OutOfBounds)
        ELSE ParseOk(file, rank)

\* Board::parse_coord
ParseCoord(coord, checks) ==
  IF Len(coord) # 2 THEN ParseErr(InvalidLength)
  ELSE
    LET file == SubU8(coord[1], ByteA, checks)
    IN  IF file = -1 THEN ParsePanic
        ELSE
          LET rank == SubU8(Byte8, coord[2], checks)
          IN  IF rank = -1 THEN ParsePanic
              ELSE IF file > 7 \/ rank > 7 THEN ParseErr(OutOfBounds)
              ELSE ParseOk(file, rank)

\* ------------------------------------------------------------------ moves
\* Variant: the row test without the wrap-around.
C2Mut_Legality(piece, fx, fy, tx, ty) ==
  IF piece.kind = "Pawn"
  THEN IF fx = tx /\ fy + 1 = ty THEN OkResult ELSE IllegalPawnMove
  ELSE UnsupportedPiece

\* Variant: the king accepted by the pawn arm.
C9Mut_Legality(piece, fx, fy, tx, ty) ==
  IF piece.kind \in {"Pawn", "King"}
  THEN IF fx = tx /\ (fy + 1) % 8 = ty THEN OkResult ELSE IllegalPawnMove
  ELSE UnsupportedPiece

\* The match on the piece kind in move_piece.
Legality(piece, fx, fy, tx, ty) ==
  IF piece.kind = "Pawn"
  THEN IF fx = tx /\ (fy + 1) % 8 = ty THEN OkResult ELSE IllegalPawnMove
  ELSE UnsupportedPiece

\* Variant: the destination gets a pawn rebuilt with a fixed glyph.
C4Mut_ApplyMove(sq, piece, fx, fy, tx, ty) ==
  LET placed == [sq EXCEPT ![ty][tx] = Piece(piece.kind, 9817)]
  IN  [placed EXCEPT ![fy][fx] = None]

\* Variant: the source square is not cleared.
C10Mut_ApplyMove(sq, piece, fx, fy, tx, ty) ==
  [sq EXCEPT ![ty][tx] = piece]

\* The two assignments of a successful pawn move.
ApplyMove(sq, piece, fx, fy, tx, ty) ==
  LET placed == [sq EXCEPT ![ty][tx] = piece]
  IN  [placed EXCEPT ![fy][fx] = None]

Outcome(res, sq, fp, tp) == [result |-> res, squares |-> sq, fp |-> fp, tp |-> tp]

ParseFailure(p) == IF p.tag = "panic" THEN Panicked ELSE p.err

\* Variant: the source square is cleared before the legality check.
C5Mut_MovePiece(sq, from, to, checks) ==
  LET fp == ParseCoord(from, checks)
  IN  IF fp.tag # "ok" THEN Outcome(ParseFailure(fp), sq, fp, NoParse)
      ELSE
        LET tp == ParseCoord(to, checks)
        IN  IF tp.tag # "ok" THEN Outcome(ParseFailure(tp), sq, fp, tp)
            ELSE IF fp.file = tp.file /\ fp.rank = tp.rank
            THEN Outcome(SameSquare, sq, fp, tp)
            ELSE
              LET piece == sq[fp.rank][fp.file]
                  cleared == [sq EXCEPT ![fp.rank][fp.file] = None]
              IN  IF piece.kind = "None" THEN Outcome(EmptySource, sq, fp, tp)
                  ELSE
                    LET legal == Legality(piece, fp.file, fp.rank, tp.file, tp.rank)
                    IN  IF legal = OkResult
                        THEN Outcome(OkResult,
                               ApplyMove(sq, piece, fp.file, fp.rank, tp.file, tp.rank),
                               fp, tp)
                        ELSE Outcome(legal, cleared, fp, tp)

\* Board::move_piece: the result it returns and the board it leaves.
MovePiece(sq, from, to, checks) ==
  LET fp == ParseCoord(from, checks)
  IN  IF fp.tag # "ok" THEN Outcome(ParseFailure(fp), sq, fp, NoParse)
      ELSE
        LET tp == ParseCoord(to, checks)
        IN  IF tp.tag # "ok" THEN Outcome(ParseFailure(tp), sq, fp, tp)
            ELSE IF fp.file = tp.file /\ fp.rank = tp.rank
            THEN Outcome(SameSquare, sq, fp, tp)
            ELSE
              LET piece == sq[fp.rank][fp.file]
              IN  IF piece.kind = "None" THEN Outcome(EmptySource, sq, fp, tp)
                  ELSE
                    LET legal == Legality(piece, fp.file, fp.rank, tp.file, tp.rank)
                    IN  IF legal = OkResult
                        THEN Outcome(OkResult,
                               ApplyMove(sq, piece, fp.file, fp.rank, tp.file, tp.rank),
                               fp, tp)
                        ELSE Outcome(legal, sq, fp, tp)

\* ------------------------------------------------------------------ state
VARIABLES
  squares,         \* Board.squares, indexed [rank][file]
  overflowChecks,  \* the build profile: TRUE when u8 overflow panics
  pc,              \* "idle", "returned" (a call has returned) or "panicked"
  op,              \* the function last called: "move_piece", "parse_coord", "none"
  calls,           \* number of calls made so far
  from,            \* arguments of the last call
  to,
  result,          \* what the last move_piece call returned
  fromParsed,      \* what parse_coord returned for them
  toParsed,
  prev             \* the board before the last call

vars == <<squares, overflowChecks, pc, op, calls, from, to, result,
          fromParsed, toParsed, prev>>

\* ----------------------------------------------------------------- inputs
FileLetters == ByteA .. (ByteA + 7)
RankDigits == (Byte8 - 7) .. Byte8

ValidCoords == {<<l, d>> : l \in FileLetters, d \in RankDigits}

\* "i9", "A1", "a9", "i1", "a0", "`8"
BadCoords == {<<105, 57>>, <<65, 49>>, <<97, 57>>, <<105, 49>>, <<97, 48>>, <<96, 56>>}

\* "", "e", "eee", ...
WrongLength == {[i \in 1 .. n |-> 101] : n \in (0 .. MaxLen) \ {2}}

MoveInputs == ValidCoords \cup BadCoords \cup WrongLength

\* Every two-byte &str: two ASCII characters, or one two-byte character.
TwoByteStrings ==
  {<<a, b>> : a \in 0 .. 127, b \in 0 .. 127}
    \cup {<<a, b>> : a \in 194 .. 223, b \in 128 .. 191}

ParseInputs == TwoByteStrings \cup WrongLength

\* ---------------------------------------------------------------- actions
Init ==
  /\ squares = BoardNew
  /\ overflowChecks \in BOOLEAN
  /\ pc = "idle"
  /\ op = "none"
  /\ calls = 0
  /\ from = <<>>
  /\ to = <<>>
  /\ result = NoResult
  /\ fromParsed = NoParse
  /\ toParsed = NoParse
  /\ prev = BoardNew

\* board.move_piece(from, to)
CallMovePiece(f, t) ==
  /\ pc = "idle"
  /\ calls < MaxCalls
  /\ LET out == MovePiece(squares, f, t, overflowChecks)
     IN  /\ squares' = out.squares
         /\ result' = out.result
         /\ fromParsed' = out.fp
         /\ toParsed' = out.tp
         /\ pc' = IF out.result = Panicked THEN "panicked" ELSE "returned"
  /\ op' = "move_piece"
  /\ prev' = squares
  /\ from' = f
  /\ to' = t
  /\ calls' = calls + 1
  /\ UNCHANGED overflowChecks

\* Board::parse_coord(coord) on its own
CallParseCoord(c) ==
  /\ pc = "idle"
  /\ calls < MaxCalls
  /\ LET p == ParseCoord(c, overflowChecks)
     IN  /\ fromParsed' = p
         /\ pc' = IF p.tag = "panic" THEN "panicked" ELSE "returned"
  /\ op' = "parse_coord"
  /\ from' = c
  /\ to' = <<>>
  /\ toParsed' = NoParse
  /\ result' = NoResult
  /\ prev' = squares
  /\ calls' = calls + 1
  /\ UNCHANGED <<squares, overflowChecks>>

\* The caller takes the result (the match in main) and goes on.
Return ==
  /\ pc = "returned"
  /\ pc' = "idle"
  /\ op' = "none"
  /\ from' = <<>>
  /\ to' = <<>>
  /\ result' = NoResult
  /\ fromParsed' = NoParse
  /\ toParsed' = NoParse
  /\ prev' = squares
  /\ UNCHANGED <<squares, overflowChecks, calls>>

\* The caller's choice of arguments.
MovePieceStep ==
  /\ pc = "idle"
  /\ calls < MaxCalls
  /\ \E f \in MoveInputs, t \in MoveInputs : CallMovePiece(f, t)

ParseCoordStep ==
  /\ pc = "idle"
  /\ calls < MaxCalls
  /\ \E c \in ParseInputs : CallParseCoord(c)

Next ==
  \/ MovePieceStep
  \/ Return

Spec == Init /\ [][Next]_vars

NextParse ==
  \/ ParseCoordStep
  \/ Return

SpecParse == Init /\ [][NextParse]_vars

\* ----------------------------------------------------------- vocabulary
\* The coordinate arithmetic of the specification, written on the bytes of
\* the argument and independent of ParseCoord.
IsCoord(c) == Len(c) = 2 /\ c[1] \in 97 .. 104 /\ c[2] \in 49 .. 56
FileOf(c) == c[1] - 97
RankOf(c) == 56 - c[2]

Occupied(sq) == {rf \in Idx \X Idx : sq[rf[1]][rf[2]].kind # "None"}
Count(sq) == Cardinality(Occupied(sq))

\* A move_piece call has been made and has ended (returned or panicked).
MoveEnded == op = "move_piece" /\ pc # "idle"
\* ... with two well-formed, distinct coordinates.
MoveOnSquares == MoveEnded /\ IsCoord(from) /\ IsCoord(to) /\ from # to
SourcePiece == prev[RankOf(from)][FileOf(from)]
TargetPiece == prev[RankOf(to)][FileOf(to)]

ErrorMessages ==
  {InvalidLength, OutOfBounds, SameSquare, EmptySource, IllegalPawnMove,
   UnsupportedPiece}

E2 == <<101, 50>>
E3 == <<101, 51>>
E4 == <<101, 52>>
A1 == <<97, 49>>
A2 == <<97, 50>>
A8 == <<97, 56>>

BackRow == <<"Rook", "Knight", "Bishop", "Queen", "King", "Bishop", "Knight", "Rook">>

\* ----------------------------------------------------------------- claims

\* C1: on a fresh board the first call move_piece("e2","e3") succeeds, the
\* pawn of e2 (row 6, file 4) stands on e3 (row 5, file 4) and e2 is empty.
C1_FreshE2E3Succeeds ==
  (MoveEnded /\ calls = 1 /\ prev = BoardNew /\ from = E2 /\ to = E3)
    => /\ pc = "returned"
       /\ result = OkResult
       /\ squares[5][4] = BoardNew[6][4]
       /\ squares[5][4].kind = "Pawn"
       /\ squares[6][4] = None

C3_InitialLayout ==
  calls = 0
    => /\ Count(squares) = 32
       /\ \A f \in Idx :
            /\ squares[1][f].kind = "Pawn"
            /\ squares[6][f].kind = "Pawn"
            /\ \A r \in 2 .. 5 : squares[r][f] = None
            /\ squares[0][f].kind = BackRow[f + 1]
            /\ squares[7][f].kind = BackRow[f + 1]
       /\ \A r \in Idx, f \in Idx :
            get_piece(GameBoardNew, r, f) = squares[r][f].kind
       /\ get_piece(GameBoardNew, 0, 4) = "King"
       /\ get_piece(GameBoardNew, 7, 4) = "King"

\* The board as constructed, before any call.
C3_Witness ==
  /\ calls = 0
  /\ pc = "idle"
  /\ squares = BoardNew
  /\ Count(squares) = 32

\* C4: when move_piece succeeds the destination holds the very piece
\* (kind and glyph) the source held, the source is empty and the other 62
\* squares are as before.
C4_SuccessFrame ==
  (MoveEnded /\ result = OkResult)
    => /\ IsCoord(from) /\ IsCoord(to) /\ from # to
       /\ SourcePiece # None
       /\ squares[RankOf(to)][FileOf(to)] = SourcePiece
       /\ squares[RankOf(from)][FileOf(from)] = None
       /\ \A r \in Idx, f \in Idx :
            (<<r, f>> # <<RankOf(from), FileOf(from)>>
               /\ <<r, f>> # <<RankOf(to), FileOf(to)>>)
              => squares[r][f] = prev[r][f]

\* A pawn carrying the glyph of row 6 has been moved.
C4_Witness ==
  /\ MoveEnded
  /\ result = OkResult
  /\ SourcePiece = Piece("Pawn", 9823)
  /\ squares[RankOf(to)][FileOf(to)] = Piece("Pawn", 9823)

\* C5: when move_piece returns an error, the error is one of the six
\* messages and all 64 squares are as before the call; the caller can go
\* on with the board.
C5_ErrorFrame ==
  (op = "move_piece" /\ pc = "returned" /\ result # OkResult)
    => /\ result \in ErrorMessages
       /\ squares = prev
       /\ ENABLED Return

\* A rejected pawn move on a board that is no longer the initial one.
C5_Witness ==
  /\ op = "move_piece"
  /\ pc = "returned"
  /\ result = IllegalPawnMove
  /\ prev # BoardNew
  /\ squares = prev

\* C6: every two-byte input whose decoded file or rank lies outside [0,7]
\* makes parse_coord return OutOfBounds; it never aborts.
C6_OutOfRangeIsError ==
  (op = "parse_coord" /\ pc # "idle" /\ Len(from) = 2
     /\ (FileOf(from) \notin Idx \/ RankOf(from) \notin Idx))
    => /\ pc = "returned"
       /\ fromParsed = ParseErr(OutOfBounds)

\* C7: for every letter a..h and digit 1..8 parse_coord returns
\* (letter - 'a', '8' - digit); the mapping is one-to-one onto
\* [0,7] x [0,7]; move_piece works on squares[rank][file] of that pair.
C7_CoordMapping ==
  MoveEnded
    => /\ IsCoord(from) => fromParsed = ParseOk(FileOf(from), RankOf(from))
       /\ (IsCoord(from) /\ IsCoord(to))
            => toParsed = ParseOk(FileOf(to), RankOf(to))
       /\ from = E2 => fromParsed = ParseOk(4, 6)
       /\ from = A8 => fromParsed = ParseOk(0, 0)
       /\ fromParsed.tag = "ok"
            => /\ fromParsed.file \in Idx /\ fromParsed.rank \in Idx
               /\ from = <<97 + fromParsed.file, 56 - fromParsed.rank>>
       /\ toParsed.tag = "ok"
            => /\ toParsed.file \in Idx /\ toParsed.rank \in Idx
               /\ to = <<97 + toParsed.file, 56 - toParsed.rank>>
       /\ MoveOnSquares
            => /\ result = EmptySource <=> SourcePiece = None
               /\ result = OkResult
                    => /\ squares[RankOf(to)][FileOf(to)] = SourcePiece
                       /\ squares[RankOf(from)][FileOf(from)] = None

\* move_piece("e2","e1") has moved the pawn of row 6, file 4 to row 7.
C7_Witness ==
  /\ MoveEnded
  /\ from = E2
  /\ fromParsed = ParseOk(4, 6)
  /\ toParsed = ParseOk(4, 7)
  /\ result = OkResult
  /\ squares[7][4].kind = "Pawn"

\* What the checks of move_piece, taken in the stated order, return.
ExpectedResult ==
  IF Len(from) # 2 THEN InvalidLength
  ELSE IF ~IsCoord(from) THEN OutOfBounds
  ELSE IF Len(to) # 2 THEN InvalidLength
  ELSE IF ~IsCoord(to) THEN OutOfBounds
  ELSE IF from = to THEN SameSquare
  ELSE IF SourcePiece = None THEN EmptySource
  ELSE IF SourcePiece.kind = "Pawn"
  THEN IF FileOf(to) = FileOf(from) /\ RankOf(to) = (RankOf(from) + 1) % 8
       THEN OkResult ELSE IllegalPawnMove
  ELSE UnsupportedPiece

\* C8: move_piece returns the first failure in the order parse of from,
\* parse of to, SameSquare, EmptySource, piece-kind check; an invalid
\* coordinate gives its parse error whatever the board holds.
C8_CheckOrder ==
  MoveEnded => (pc = "returned" /\ result = ExpectedResult)

\* C9: with valid, distinct coordinates a Rook, Knight, Bishop, Queen or
\* King on the source square gives UnsupportedPiece, and every non-pawn
\* piece on the board stands where Board::new put it.
C9_NonPawnsStay ==
  /\ (MoveOnSquares /\ SourcePiece.kind \in NonPawnKinds)
       => (pc = "returned" /\ result = UnsupportedPiece /\ squares = prev)
  /\ (calls = 1 /\ MoveEnded /\ from = A1 /\ to = A2)
       => result = UnsupportedPiece
  /\ \A r \in Idx, f \in Idx :
       squares[r][f].kind \in NonPawnKinds => squares[r][f] = BoardNew[r][f]

\* A king has been asked to step onto the next row of its file.
C9_Witness ==
  /\ MoveOnSquares
  /\ SourcePiece.kind = "King"
  /\ FileOf(to) = FileOf(from)
  /\ RankOf(to) = (RankOf(from) + 1) % 8
  /\ result = UnsupportedPiece

\* C10: the number of occupied squares never exceeds 32 and never grows:
\* a successful move keeps it when the destination was empty and lowers
\* it by one when the destination was occupied; a failed move keeps it.
C10_CountNeverGrows ==
  /\ Count(squares) <= 32
  /\ MoveEnded
       => /\ Count(squares) <= Count(prev)
          /\ result # OkResult => Count(squares) = Count(prev)
          /\ (result = OkResult /\ TargetPiece = None)
               => Count(squares) = Count(prev)
          /\ (result = OkResult /\ TargetPiece # None)
               => Count(squares) = Count(prev) - 1

\* A pawn has overwritten a king.
C10_Witness ==
  /\ MoveEnded
  /\ result = OkResult
  /\ TargetPiece.kind = "King"
  /\ Count(squares) = Count(prev) - 1

====
